---- MODULE Spec2Model ----
(***************************************************************************)
(* Model of goshadertranslator: the host binding that drives the ANGLE     *)
(* shader translator compiled to WebAssembly (transpiler.go) and builds    *)
(* the Shader result from the guest's JSON response (newShader).           *)
(*                                                                         *)
(* The guest module and the wazero runtime are the environment: every call *)
(* into them (CompileModule, InstantiateModule, ExportedFunction,          *)
(* initialize, finalize, malloc, invoke, free, Runtime.Close) has a        *)
(* nondeterministic outcome, and invoke may leave any content in the       *)
(* guest's linear memory.  Pointers are scaled from 32 bits to PtrBits     *)
(* bits and the linear memory to MemSize bytes.                            *)
(***************************************************************************)
EXTENDS Integers, Sequences, FiniteSets, TLC

\* ------------------------------------------------------------------ bounds
PtrBits   == 3          \* width of a guest pointer (uint32 in the source)
MemSize   == 3          \* size of a guest linear memory, in bytes
MaxByte   == 1          \* bytes the guest writes are 0..MaxByte, 0 is the terminator
MaxVars   == 2          \* longest variable sequence of one category in a response
MaxReqLen == 2          \* longest marshalled request, in bytes
MaxOps    == 3          \* Close/TranslateShader calls made on one instance
PairOps   == 1          \* the same, per instance, when two instances run side by side
MaxSrcLen == 4          \* longest shader source, in bytes

PtrModulus == 2 ^ PtrBits
Ptrs       == 0 .. (PtrModulus - 1)
Addr       == 0 .. (MemSize - 1)
Bytes      == 0 .. MaxByte
ReadBytes  == 0 .. (MaxByte + 1)   \* memory contents readStringFromMemory is tried on
Inst       == {1, 2}    \* translator instances
Threads    == {1, 2}    \* calling goroutines

\* ------------------------------------------------------------ error values
NoErr == [kind |-> "nil", message |-> "", log |-> ""]
Err(k) == [kind |-> k, message |-> "", log |-> ""]
ErrCompile     == Err("failed to compile wasm module")
ErrInstantiate == Err("failed to instantiate wasm module")
ErrExports     == Err("one or more required library functions not exported from wasm module")
ErrInitCall    == Err("failed to call 'initialize' function")
ErrInitFailed  == Err("the ANGLE library's 'initialize' function failed")
ErrRelease     == Err("failed to close wazero runtime")
ErrClosed      == Err("translator has been closed")
ErrInvoke      == Err("wasm invoke call failed")
ErrNullPtr     == Err("wasm invoke function returned a null pointer")
ErrUnmarshal   == Err("failed to unmarshal wasm response")
ErrMallocCall  == Err("wasm malloc call failed")
ErrMallocNull  == Err("wasm malloc failed to allocate memory")
ErrWrite       == Err("failed to write to wasm memory")
ErrWriteTerm   == Err("failed to write null terminator to wasm memory")
ErrRead        == Err("failed to read from wasm memory")
ErrNoTerm      == Err("string from wasm is not null-terminated")

VARIABLES
    st,          \* [Inst -> the ShaderTranslator struct, or none before/without construction]
    newLog,      \* [Inst -> what NewShaderTranslator met and returned]
    rt,          \* [runtime -> calls received: initialize, finalize, Runtime.Close, malloc/invoke/free]
    mem,         \* [runtime -> linear memory of the guest module]
    closeCalls,  \* [Inst -> number of Close calls that have returned]
    target,      \* [Threads -> the instance the goroutine works on]
    budget,      \* [Threads -> calls the goroutine may still start]
    pc,          \* [Threads -> position inside Close / TranslateShader]
    loc,         \* [Threads -> locals of the call in progress]
    ret,         \* [Threads -> what the goroutine's last call returned]
    trace        \* [Threads -> guest/runtime calls made by the current or last call]

vars == <<st, newLog, rt, mem, closeCalls, target, budget, pc, loc, ret, trace>>

\* ------------------------------------------------------------------ result
EmptyVars == [n \in {} |-> 0]
NilShader == [isNil |-> TRUE, code |-> "", vars |-> EmptyVars]
NoDoc     == [t |-> "none"]

NoRet == [op |-> "none", res |-> NilShader, err |-> NoErr, panic |-> FALSE, afterClose |-> FALSE]
Ret(o, r, e, ac) == [op |-> o, res |-> r, err |-> e, panic |-> FALSE, afterClose |-> ac]

\* the arguments of TranslateShader and the JSONRPCRequest built from them
NoArgs == [shaderCode |-> <<>>, shaderType |-> "", spec |-> "", output |-> ""]
NoReq  == [jsonrpc |-> "", id |-> 0, method |-> "",
           params |-> [shader_code_base64 |-> <<>>, shader_type |-> "", spec |-> "",
                       output |-> "", print_active_variables |-> FALSE,
                       compile_options |-> [objectCode |-> FALSE]]]

NoLoc == [data |-> <<>>, reqPtr |-> 0, respPtr |-> 0, respBytes |-> <<>>,
          doc |-> NoDoc, order |-> <<>>, args |-> NoArgs, req |-> NoReq]

Ev(f, a, o) == [f |-> f, arg |-> a, out |-> o]
\* the positions of the events of kind f in the current call of goroutine t
Events(t, f) == {k \in DOMAIN trace[t] : trace[t][k].f = f}

\* ------------------------------------------------------- the struct (51-61)
Required == {"initialize", "finalize", "invoke", "malloc", "free"}

NoTranslator == [exists |-> FALSE, closed |-> FALSE, runtime |-> 0, funcs |-> {}]

\* (mutation) one runtime shared by all instances
RuntimeOf_shared(i) == 1

\* wazero.NewRuntime(ctx): every instance gets a runtime of its own
RuntimeOf(i) == i

ShaderTranslator(i) ==
    [exists |-> TRUE, closed |-> FALSE, runtime |-> RuntimeOf(i), funcs |-> Required]

\* ------------------------------------------------ NewShaderTranslator (81-134)
\* What the environment answers during construction.
NewEnvs ==
    {[compile |-> FALSE, inst |-> FALSE, exports |-> {}, initErr |-> FALSE, initRes |-> 0]}
    \cup {[compile |-> TRUE, inst |-> FALSE, exports |-> {}, initErr |-> FALSE, initRes |-> 0]}
    \cup {[compile |-> TRUE, inst |-> TRUE, exports |-> e, initErr |-> FALSE, initRes |-> r] :
              e \in (SUBSET Required) \ {Required}, r \in 0 .. 1}
    \cup {[compile |-> TRUE, inst |-> TRUE, exports |-> Required, initErr |-> TRUE, initRes |-> 0]}
    \cup {[compile |-> TRUE, inst |-> TRUE, exports |-> Required, initErr |-> FALSE, initRes |-> r] :
              r \in 0 .. 1}

\* invoker == nil || malloc == nil || free == nil || initializer == nil || finalizer == nil
MissingExport(exports) ==
    \/ "invoke" \notin exports
    \/ "malloc" \notin exports
    \/ "free" \notin exports
    \/ "initialize" \notin exports
    \/ "finalize" \notin exports

\* (mutation) the failing-initializer path forgets r.Close
NewOutcome_leak(env) ==
    IF ~env.compile THEN [err |-> ErrCompile, rel |-> 1, init |-> 0]
    ELSE IF ~env.inst THEN [err |-> ErrInstantiate, rel |-> 1, init |-> 0]
    ELSE IF MissingExport(env.exports) THEN [err |-> ErrExports, rel |-> 1, init |-> 0]
    ELSE IF env.initErr THEN [err |-> ErrInitCall, rel |-> 1, init |-> 1]
    ELSE IF env.initRes = 0 THEN [err |-> ErrInitFailed, rel |-> 0, init |-> 1]
    ELSE [err |-> NoErr, rel |-> 0, init |-> 1]

\* The body of NewShaderTranslator: the error returned, the number of
\* r.Close calls and of initializer calls made under environment env.
NewOutcome(env) ==
    IF ~env.compile THEN [err |-> ErrCompile, rel |-> 1, init |-> 0]
    ELSE IF ~env.inst THEN [err |-> ErrInstantiate, rel |-> 1, init |-> 0]
    ELSE IF MissingExport(env.exports) THEN [err |-> ErrExports, rel |-> 1, init |-> 0]
    ELSE IF env.initErr THEN [err |-> ErrInitCall, rel |-> 1, init |-> 1]
    ELSE IF env.initRes = 0 THEN [err |-> ErrInitFailed, rel |-> 1, init |-> 1]
    ELSE [err |-> NoErr, rel |-> 0, init |-> 1]

NoNew == [done |-> FALSE,
          env |-> [compile |-> FALSE, inst |-> FALSE, exports |-> {}, initErr |-> FALSE, initRes |-> 0],
          err |-> NoErr, rel |-> 0, init |-> 0, closed |-> FALSE]

NewShaderTranslator(t) ==
    LET i == target[t] IN
    /\ pc[t] = "idle"
    /\ budget[t] > 0
    /\ ~newLog[i].done
    /\ \E env \in NewEnvs :
         LET o == NewOutcome(env)
             s == IF o.err = NoErr THEN ShaderTranslator(i) ELSE NoTranslator
             r == RuntimeOf(i)
         IN /\ st' = [st EXCEPT ![i] = s]
            /\ newLog' = [newLog EXCEPT ![i] =
                             [done |-> TRUE, env |-> env, err |-> o.err,
                              rel |-> o.rel, init |-> o.init, closed |-> s.closed]]
            /\ rt' = [rt EXCEPT ![r].init = @ + o.init, ![r].rel = @ + o.rel]
    /\ UNCHANGED <<mem, closeCalls, target, budget, pc, loc, ret, trace>>

\* --------------------------------------------------------- Close (137-149)
CanStart(t) ==
    /\ pc[t] = "idle"
    /\ budget[t] > 0
    /\ st[target[t]].exists

\* if st.closed { return nil }
Close_Begin(t) ==
    LET i == target[t] IN
    /\ CanStart(t)
    /\ budget' = [budget EXCEPT ![t] = @ - 1]
    /\ trace' = [trace EXCEPT ![t] = <<>>]
    /\ loc' = [loc EXCEPT ![t] = NoLoc]
    /\ IF st[i].closed
       THEN /\ ret' = [ret EXCEPT ![t] = Ret("close", NilShader, NoErr, closeCalls[i] > 0)]
            /\ closeCalls' = [closeCalls EXCEPT ![i] = @ + 1]
            /\ pc' = pc
       ELSE /\ ret' = [ret EXCEPT ![t] = Ret("close", NilShader, NoErr, closeCalls[i] > 0)]
            /\ closeCalls' = closeCalls
            /\ pc' = [pc EXCEPT ![t] = "finalize"]
    /\ UNCHANGED <<st, newLog, rt, mem, target>>

\* (mutation) a finalizer error makes Close return it and skip the release
Close_Finalize_abort(t) ==
    LET i == target[t]
        r == st[i].runtime
    IN
    /\ pc[t] = "finalize"
    /\ rt' = [rt EXCEPT ![r].fin = @ + 1]
    /\ \E ok \in BOOLEAN :
         IF ok
         THEN /\ trace' = [trace EXCEPT ![t] = Append(@, Ev("finalize", 0, 0))]
              /\ pc' = [pc EXCEPT ![t] = "release"]
              /\ UNCHANGED <<ret, closeCalls>>
         ELSE /\ trace' = [trace EXCEPT ![t] = Append(@, Ev("finalize", 0, -1))]
              /\ pc' = [pc EXCEPT ![t] = "idle"]
              /\ ret' = [ret EXCEPT ![t].err = ErrRelease]
              /\ closeCalls' = [closeCalls EXCEPT ![i] = @ + 1]
    /\ UNCHANGED <<st, newLog, mem, target, budget, loc>>

\* st.finalizer.Call(st.ctx); an error is logged only
Close_Finalize(t) ==
    LET r == st[target[t]].runtime IN
    /\ pc[t] = "finalize"
    /\ \E ok \in BOOLEAN :
         trace' = [trace EXCEPT ![t] =
                      IF ok THEN Append(@, Ev("finalize", 0, 0))
                      ELSE Append(Append(@, Ev("finalize", 0, -1)), Ev("log", 0, 0))]
    /\ rt' = [rt EXCEPT ![r].fin = @ + 1]
    /\ pc' = [pc EXCEPT ![t] = "release"]
    /\ UNCHANGED <<st, newLog, mem, closeCalls, target, budget, loc, ret>>

\* st.runtime.Close(st.ctx); st.closed = true only when it succeeded
Close_Release(t) ==
    LET i == target[t]
        r == st[i].runtime
    IN
    /\ pc[t] = "release"
    /\ \E ok \in BOOLEAN :
         /\ trace' = [trace EXCEPT ![t] = Append(@, Ev("release", 0, IF ok THEN 0 ELSE -1))]
         /\ st' = [st EXCEPT ![i].closed = IF ok THEN TRUE ELSE @]
         /\ ret' = [ret EXCEPT ![t].err = IF ok THEN NoErr ELSE ErrRelease]
    /\ rt' = [rt EXCEPT ![r].rel = @ + 1]
    /\ closeCalls' = [closeCalls EXCEPT ![i] = @ + 1]
    /\ pc' = [pc EXCEPT ![t] = "idle"]
    /\ UNCHANGED <<newLog, mem, target, budget, loc>>

\* ------------------------------------------------- guest linear memory
\* api.Memory.Write(offset, data): rejected unless offset+len(data) <= Size()
MemWriteOK(off, n) == off + n <= MemSize

\* (mutation) the write also clears every byte outside the written range
MemWrite_clearing(m, off, data) ==
    [a \in Addr |-> IF a >= off /\ a < off + Len(data) THEN data[a - off + 1] ELSE 0]

MemWrite(m, off, data) ==
    [a \in Addr |-> IF a >= off /\ a < off + Len(data) THEN data[a - off + 1] ELSE m[a]]

\* api.Memory.WriteByte(offset, v): rejected unless offset < Size()
MemWriteByteOK(off) == off < MemSize

\* api.Memory.Read(offset, byteCount): rejected unless offset+byteCount <= Size()
MemReadOK(off, n) == off + n <= MemSize

\* (mutation) the scan reports the position after the terminator
RECURSIVE ScanNul_past(_, _)
ScanNul_past(memBuffer, k) ==
    IF k > Len(memBuffer) THEN -1
    ELSE IF memBuffer[k] = 0 THEN k
    ELSE ScanNul_past(memBuffer, k + 1)

\* for i, b := range memBuffer { if b == 0 { nullTerminatorIndex = i; break } }
RECURSIVE ScanNul(_, _)
ScanNul(memBuffer, k) ==
    IF k > Len(memBuffer) THEN -1
    ELSE IF memBuffer[k] = 0 THEN k - 1
    ELSE ScanNul(memBuffer, k + 1)

\* readStringFromMemory (230-247); mem.Size()-ptr is computed in the pointer width
readStringFromMemory(m, ptr) ==
    LET byteCount == (MemSize - ptr) % PtrModulus IN
    IF ~MemReadOK(ptr, byteCount)
    THEN [bytes |-> <<>>, err |-> ErrRead]
    ELSE LET memBuffer == [k \in 1 .. byteCount |-> m[ptr + k - 1]]
             nullTerminatorIndex == ScanNul(memBuffer, 1)
         IN IF nullTerminatorIndex = -1
            THEN [bytes |-> <<>>, err |-> ErrNoTerm]
            ELSE [bytes |-> SubSeq(memBuffer, 1, nullTerminatorIndex), err |-> NoErr]

\* ------------------------------------------- decoded JSON (interface{} values)
JNull    == [t |-> "null"]
JBool(b) == [t |-> "bool", b |-> b]
JStr(s)  == [t |-> "string", s |-> s]
\* a float64: i + half/2, so that a value with a fractional part exists
JNum(i, half) == [t |-> "number", i |-> i, half |-> half]
JArr(a)  == [t |-> "array", a |-> a]
JObj(o)  == [t |-> "object", o |-> o]
EmptyObj == JObj([k \in {} |-> JNull])

IsMap(v)  == v.t = "object"
IsArr(v)  == v.t = "array"
IsStr(v)  == v.t = "string"
IsBool(v) == v.t = "bool"
IsNum(v)  == v.t = "number"

\* m[k] on a map[string]interface{}: nil for a missing key and for a nil map
Get(m, k) == IF IsMap(m) /\ k \in DOMAIN m.o THEN m.o[k] ELSE JNull

\* v, _ := x.(map[string]interface{}): the nil map when x is anything else
AsMap(v) == IF IsMap(v) THEN v ELSE JNull

\* s, _ := x.(string): "" when x is anything else
AsStr(v) == IF IsStr(v) THEN v.s ELSE ""

\* uint(f) for a non-negative float64 in range: truncation
ToUint(v) == v.i

\* ----------------------------------------------------- newShader (part_000)
Panicked == [panic |-> TRUE, vars |-> EmptyVars]

\* the seven unchecked type assertions of the struct literal (33-39) all succeed
AssertionsHold(variableMap) ==
    /\ IsBool(Get(variableMap, "active"))
    /\ IsBool(Get(variableMap, "is_row_major"))
    /\ IsStr(Get(variableMap, "mapped_name"))
    /\ IsStr(Get(variableMap, "name"))
    /\ IsNum(Get(variableMap, "precision_enum"))
    /\ IsBool(Get(variableMap, "static_use"))
    /\ IsNum(Get(variableMap, "type_enum"))

\* the struct literal of lines 32-41
\* (mutation) the two numeric codes are stored in each other's field
ShaderVariable_swapped(variableMap, name) ==
    [Active     |-> Get(variableMap, "active").b,
     IsRowMajor |-> Get(variableMap, "is_row_major").b,
     MappedName |-> Get(variableMap, "mapped_name").s,
     Name       |-> Get(variableMap, "name").s,
     Precision  |-> ToUint(Get(variableMap, "type_enum")),
     StaticUse  |-> Get(variableMap, "static_use").b,
     Type       |-> ToUint(Get(variableMap, "precision_enum")),
     Category   |-> name]

ShaderVariable(variableMap, name) ==
    [Active     |-> Get(variableMap, "active").b,
     IsRowMajor |-> Get(variableMap, "is_row_major").b,
     MappedName |-> Get(variableMap, "mapped_name").s,
     Name       |-> Get(variableMap, "name").s,
     Precision  |-> ToUint(Get(variableMap, "precision_enum")),
     StaticUse  |-> Get(variableMap, "static_use").b,
     Type       |-> ToUint(Get(variableMap, "type_enum")),
     Category   |-> name]

\* (mutation) an entry already present is kept
Put_keepFirst(variables, k, v) ==
    [n \in (DOMAIN variables) \cup {k} |-> IF n \in DOMAIN variables THEN variables[n] ELSE v]

\* variables[variable.Name] = variable
Put(variables, k, v) ==
    [n \in (DOMAIN variables) \cup {k} |-> IF n = k THEN v ELSE variables[n]]

\* inner loop (27-43) over varData from position k on
RECURSIVE rangeVarData(_, _, _, _)
rangeVarData(varData, k, name, acc) ==
    IF k > Len(varData) THEN acc
    ELSE LET data == varData[k] IN
         IF ~IsMap(data) THEN rangeVarData(varData, k + 1, name, acc)
         ELSE IF ~AssertionsHold(data) THEN Panicked
         ELSE LET variable == ShaderVariable(data, name)
              IN rangeVarData(varData, k + 1, name,
                              [acc EXCEPT !.vars = Put(@, variable.Name, variable)])

\* outer loop (25-44); order is the order in which range visits the map's keys
RECURSIVE rangeActiveVariables(_, _, _, _)
rangeActiveVariables(active_variables, order, k, acc) ==
    IF k > Len(order) THEN acc
    ELSE LET varData == active_variables.o[order[k]] IN
         IF ~IsArr(varData) THEN Panicked
         ELSE LET a == rangeVarData(varData.a, 1, order[k], acc)
              IN IF a.panic THEN a
                 ELSE rangeActiveVariables(active_variables, order, k + 1, a)

activeVariablesOf(response) ==
    AsMap(Get(AsMap(Get(response, "result")), "active_variables"))

newShader(response, order) ==
    LET fsResultPayload  == AsMap(Get(response, "result"))
        active_variables == activeVariablesOf(response)
        variables ==
            IF IsMap(active_variables)
            THEN rangeActiveVariables(active_variables, order, 1,
                                      [panic |-> FALSE, vars |-> EmptyVars])
            ELSE [panic |-> FALSE, vars |-> EmptyVars]
        object_code == Get(fsResultPayload, "object_code")
    IN IF variables.panic \/ ~IsStr(object_code)
       THEN [panic |-> TRUE, res |-> NilShader]
       ELSE [panic |-> FALSE,
             res |-> [isNil |-> FALSE, code |-> object_code.s, vars |-> variables.vars]]

\* the orders in which Go's range may visit the keys of active_variables
Perms(S) == {s \in [1 .. Cardinality(S) -> S] : \A a, b \in DOMAIN s : s[a] = s[b] => a = b}

Orders(response) ==
    LET active_variables == activeVariablesOf(response) IN
    IF IsMap(active_variables) THEN Perms(DOMAIN active_variables.o) ELSE {<<>>}

\* lines 201-208: the error branch, else newShader
hasError(responseMap) == IsMap(Get(responseMap, "error"))

TranslateResponse(responseMap, order) ==
    LET serr == AsMap(Get(responseMap, "error")) IN
    IF hasError(responseMap)
    THEN [panic |-> FALSE, res |-> NilShader,
          err |-> [kind |-> "translation",
                   message |-> AsStr(Get(serr, "message")),
                   log |-> AsStr(Get(AsMap(Get(serr, "data")), "info_log"))]]
    ELSE LET sh == newShader(responseMap, order)
         IN [panic |-> sh.panic, res |-> sh.res, err |-> NoErr]

\* ------------------------------------------- responses met by the full model
GoodVariable(n, mapped) ==
    JObj([active |-> JBool(TRUE), is_row_major |-> JBool(FALSE),
          mapped_name |-> JStr(mapped), name |-> JStr(n),
          precision_enum |-> JNum(2, 0), static_use |-> JBool(TRUE),
          type_enum |-> JNum(3, 0)])

GoodResult ==
    JObj([object_code |-> JStr("code"),
          active_variables |-> JObj([uniform |-> JArr(<<GoodVariable("a", "_ua")>>)])])

ErrorObject ==
    JObj([message |-> JStr("compile failed"), data |-> JObj([info_log |-> JStr("ERROR: 0:1")])])

EnvelopeDocs ==
    { JObj([result |-> GoodResult]),
      JObj([error |-> ErrorObject]),
      JObj([error |-> EmptyObj, result |-> GoodResult]),
      JObj([error |-> JStr("boom")]),
      JObj([error |-> JStr("boom"), result |-> GoodResult]),
      EmptyObj,
      JNull }

\* json.Marshal(requestPayload): a non-empty text without zero bytes
RequestTexts == {[k \in 1 .. n |-> 1] : n \in 1 .. MaxReqLen}

\* --------------------------- responses newShader is tried on, one by one
Cats == {"uniform", "attribute"}

VariablePool ==
    {GoodVariable(n, m) : n \in {"a", "b"}, m \in {"_1", "_2"}} \cup {JStr("stray")}

VarSeqs == UNION {[1 .. n -> VariablePool] : n \in 0 .. MaxVars}

ResultWith(object_code, active_variables) ==
    JObj([result |-> JObj([object_code |-> object_code, active_variables |-> active_variables])])

\* well-typed results, names repeated within and across categories
RepeatDocs ==
    {ResultWith(JStr("code"), JObj([c \in cs |-> JArr(f[c])])) :
         cs \in {{"uniform"}, Cats}, f \in [Cats -> VarSeqs]}

Fields == {"active", "is_row_major", "mapped_name", "name",
           "precision_enum", "static_use", "type_enum"}

Without(v, f) == JObj([k \in (DOMAIN v.o) \ {f} |-> v.o[k]])
With(v, f, x) == JObj([k \in (DOMAIN v.o) \cup {f} |-> IF k = f THEN x ELSE v.o[k]])

\* one variable entry with one field missing or of another type
BadVariables ==
    {Without(GoodVariable("a", "_1"), f) : f \in Fields}
    \cup {With(GoodVariable("a", "_1"), f, x) : f \in Fields, x \in {JNull, JArr(<<>>)}}
    \cup {With(GoodVariable("a", "_1"), f, JStr("x")) :
              f \in Fields \ {"mapped_name", "name"}}
    \cup {With(GoodVariable("a", "_1"), f, JBool(TRUE)) :
              f \in {"mapped_name", "name", "precision_enum", "type_enum"}}

DefectDocs ==
    {ResultWith(JStr("code"), JObj([uniform |-> JArr(<<b>>)])) : b \in BadVariables}
    \cup {ResultWith(JStr("code"), JObj([uniform |-> JArr(<<GoodVariable("b", "_2"), b>>)])) :
              b \in BadVariables}
    \cup {ResultWith(JStr("code"), JObj([uniform |-> JArr(<<x>>)])) :
              x \in {JNull, JStr("a"), JNum(1, 0), JArr(<<>>)}}
    \cup {ResultWith(JStr("code"), JObj([uniform |-> x])) :
              x \in {JNull, JStr("a"), EmptyObj, GoodVariable("a", "_1")}}
    \cup {ResultWith(JStr("code"), x) : x \in {JNull, JArr(<<>>), JStr("a")}}
    \cup {ResultWith(x, JObj([uniform |-> JArr(<<GoodVariable("a", "_1")>>)])) :
              x \in {JNull, JNum(1, 0), EmptyObj}}
    \cup {JObj([result |-> JObj([object_code |-> JStr("code")])]),
          JObj([result |-> JObj([active_variables |-> JObj([uniform |-> JArr(<<>>)])])]),
          JObj([result |-> EmptyObj]),
          JObj([result |-> JStr("code")]),
          JObj([result |-> JNull]),
          JObj([id |-> JNum(1, 0)])}

\* one entry with every combination of the flags and of some numeric codes:
\* zero, one, a GL enum, the largest value at hand, and a value with a
\* fractional part
Numbers == {JNum(0, 0), JNum(1, 0), JNum(35665, 0), JNum(2147483647, 0), JNum(2, 1)}

NumberVariables ==
    {JObj([active |-> JBool(a), is_row_major |-> JBool(r),
           mapped_name |-> JStr("_1"), name |-> JStr("a"),
           precision_enum |-> p, static_use |-> JBool(u), type_enum |-> ty]) :
         a \in BOOLEAN, r \in BOOLEAN, u \in BOOLEAN, p \in Numbers, ty \in Numbers}

NumberDocs ==
    {ResultWith(JStr("code"), JObj([uniform |-> JArr(<<v>>)])) : v \in NumberVariables}

ShaderDocs == EnvelopeDocs \cup RepeatDocs \cup DefectDocs \cup NumberDocs

\* ------------------------------------------- the request envelope (157-170)
ShaderSpecs   == {"gles2", "gles3", "gles31", "gles32", "webgl", "webgl2", "webgl3", "webgln"}
OutputFormats == {"essl", "glsl", "glsl130", "glsl140", "glsl150", "glsl330", "glsl400",
                  "glsl410", "glsl420", "glsl430", "glsl440", "glsl450"}
Stages        == {"vertex", "fragment"}
SrcBytes      == {10, 34, 255}      \* a line feed, a quote, a non-ASCII byte
Sources       == UNION {[1 .. n -> SrcBytes] : n \in 0 .. MaxSrcLen}

\* A base64 text is the sequence of its characters' indices in the standard
\* alphabet, Pad standing for '='.
Pad == 64

\* (mutation) a trailing group of one or two bytes is dropped
RECURSIVE StdEncode_noTail(_)
StdEncode_noTail(src) ==
    IF Len(src) < 3 THEN <<>>
    ELSE LET v == src[1] * 65536 + src[2] * 256 + src[3]
         IN <<v \div 262144, (v \div 4096) % 64, (v \div 64) % 64, v % 64>>
            \o StdEncode_noTail(SubSeq(src, 4, Len(src)))

\* base64.StdEncoding.EncodeToString([]byte(shaderCode)) (157)
RECURSIVE StdEncode(_)
StdEncode(src) ==
    IF Len(src) = 0 THEN <<>>
    ELSE IF Len(src) = 1
    THEN LET v == src[1] * 65536
         IN <<v \div 262144, (v \div 4096) % 64, Pad, Pad>>
    ELSE IF Len(src) = 2
    THEN LET v == src[1] * 65536 + src[2] * 256
         IN <<v \div 262144, (v \div 4096) % 64, (v \div 64) % 64, Pad>>
    ELSE LET v == src[1] * 65536 + src[2] * 256 + src[3]
         IN <<v \div 262144, (v \div 4096) % 64, (v \div 64) % 64, v % 64>>
            \o StdEncode(SubSeq(src, 4, Len(src)))

\* the struct literal of lines 158-170, fields named by their JSON tags
JSONRPCRequest(shaderCode, shaderType, spec, output) ==
    [jsonrpc |-> "2.0",
     id      |-> 1,
     method  |-> "translate",
     params  |-> [shader_code_base64     |-> StdEncode(shaderCode),
                  shader_type            |-> shaderType,
                  spec                   |-> spec,
                  output                 |-> output,
                  print_active_variables |-> TRUE,
                  compile_options        |-> [objectCode |-> TRUE]]]

\* ------------------------------------------------ TranslateShader (152-209)
Rt(t) == st[target[t]].runtime

\* return before the deferred free is registered
ReturnErr(t, e) ==
    /\ ret' = [ret EXCEPT ![t].err = e]
    /\ pc' = [pc EXCEPT ![t] = "idle"]
    /\ loc' = [loc EXCEPT ![t] = NoLoc]

\* the closed check and the marshalling of the request (153-174)
TranslateShader_Begin(t) ==
    LET i == target[t] IN
    /\ CanStart(t)
    /\ budget' = [budget EXCEPT ![t] = @ - 1]
    /\ trace' = [trace EXCEPT ![t] = <<>>]
    /\ IF st[i].closed
       THEN /\ ret' = [ret EXCEPT ![t] = Ret("translate", NilShader, ErrClosed, closeCalls[i] > 0)]
            /\ loc' = [loc EXCEPT ![t] = NoLoc]
            /\ pc' = pc
       ELSE /\ ret' = [ret EXCEPT ![t] = Ret("translate", NilShader, NoErr, closeCalls[i] > 0)]
            /\ \E requestBytes \in RequestTexts :
                 loc' = [loc EXCEPT ![t] = [NoLoc EXCEPT !.data = requestBytes]]
            /\ pc' = [pc EXCEPT ![t] = "malloc"]
    /\ UNCHANGED <<st, newLog, rt, mem, closeCalls, target>>

\* lines 157-174 alone: the envelope is built from the arguments and marshalled
TranslateShader_BuildRequest(t) ==
    LET a == loc[t].args IN
    /\ pc[t] = "request"
    /\ \E requestBytes \in RequestTexts :
         loc' = [loc EXCEPT ![t].req = JSONRPCRequest(a.shaderCode, a.shaderType, a.spec, a.output),
                            ![t].data = requestBytes]
    /\ pc' = [pc EXCEPT ![t] = "malloc"]
    /\ UNCHANGED <<st, newLog, rt, mem, closeCalls, target, budget, ret, trace>>

\* writeStringToMemory: st.malloc.Call(st.ctx, byteCount+1) (212-220)
writeStringToMemory_Malloc(t) ==
    /\ pc[t] = "malloc"
    /\ rt' = [rt EXCEPT ![Rt(t)].guest = @ + 1]
    /\ \E out \in {-1} \cup Ptrs :
         /\ trace' = [trace EXCEPT ![t] = Append(@, Ev("malloc", Len(loc[t].data) + 1, out))]
         /\ IF out = -1 THEN ReturnErr(t, ErrMallocCall)
            ELSE IF out = 0 THEN ReturnErr(t, ErrMallocNull)
            ELSE /\ loc' = [loc EXCEPT ![t].reqPtr = out]
                 /\ pc' = [pc EXCEPT ![t] = "write"]
                 /\ ret' = ret
    /\ UNCHANGED <<st, newLog, mem, closeCalls, target, budget>>

\* writeStringToMemory: Memory().Write(uint32(ptr), data) (221-223)
writeStringToMemory_Write(t) ==
    LET ptr  == loc[t].reqPtr
        data == loc[t].data
        ok   == MemWriteOK(ptr, Len(data))
    IN
    /\ pc[t] = "write"
    /\ trace' = [trace EXCEPT ![t] = Append(@, Ev("write", ptr, IF ok THEN Len(data) ELSE -1))]
    /\ IF ok
       THEN /\ mem' = [mem EXCEPT ![Rt(t)] = MemWrite(@, ptr, data)]
            /\ pc' = [pc EXCEPT ![t] = "writebyte"]
            /\ UNCHANGED <<loc, ret>>
       ELSE /\ mem' = mem
            /\ ReturnErr(t, ErrWrite)
    /\ rt' = [rt EXCEPT ![Rt(t)].memops = @ + 1]
    /\ UNCHANGED <<st, newLog, closeCalls, target, budget>>

\* writeStringToMemory: Memory().WriteByte(uint32(ptr+byteCount), 0) (224-227)
writeStringToMemory_WriteByte(t) ==
    LET off == (loc[t].reqPtr + Len(loc[t].data)) % PtrModulus
        ok  == MemWriteByteOK(off)
    IN
    /\ pc[t] = "writebyte"
    /\ trace' = [trace EXCEPT ![t] = Append(@, Ev("writebyte", off, IF ok THEN 1 ELSE -1))]
    /\ IF ok
       THEN /\ mem' = [mem EXCEPT ![Rt(t)][off] = 0]
            /\ pc' = [pc EXCEPT ![t] = "invoke"]
            /\ UNCHANGED <<loc, ret>>
       ELSE /\ mem' = mem
            /\ ReturnErr(t, ErrWriteTerm)
    /\ rt' = [rt EXCEPT ![Rt(t)].memops = @ + 1]
    /\ UNCHANGED <<st, newLog, closeCalls, target, budget>>

\* (mutation) the null check is missing
IsNull_never(responsePtr) == FALSE

\* responsePtr == 0
IsNull(responsePtr) == responsePtr = 0

\* (mutation) a failed invoke is tried once more before the error is returned
TranslateShader_Invoke_retry(t) ==
    /\ pc[t] = "invoke"
    /\ rt' = [rt EXCEPT ![Rt(t)].guest = @ + 1]
    /\ \E out \in {-1} \cup Ptrs, m \in [Addr -> Bytes] :
         /\ trace' = [trace EXCEPT ![t] = Append(@, Ev("invoke", loc[t].reqPtr, out))]
         /\ mem' = [mem EXCEPT ![Rt(t)] = m]
         /\ IF out = -1 /\ Events(t, "invoke") = {}
            THEN UNCHANGED <<ret, pc, loc>>
            ELSE IF out = -1
            THEN /\ ret' = [ret EXCEPT ![t].err = ErrInvoke]
                 /\ pc' = [pc EXCEPT ![t] = "free"]
                 /\ loc' = loc
            ELSE IF IsNull(out)
            THEN /\ ret' = [ret EXCEPT ![t].err = ErrNullPtr]
                 /\ pc' = [pc EXCEPT ![t] = "free"]
                 /\ loc' = loc
            ELSE /\ ret' = ret
                 /\ pc' = [pc EXCEPT ![t] = "read"]
                 /\ loc' = [loc EXCEPT ![t].respPtr = out]
    /\ UNCHANGED <<st, newLog, closeCalls, target, budget>>

\* st.invoker.Call(st.ctx, requestPtr) and the null check (182-189); the guest
\* may leave any content in its memory
TranslateShader_Invoke(t) ==
    /\ pc[t] = "invoke"
    /\ rt' = [rt EXCEPT ![Rt(t)].guest = @ + 1]
    /\ \E out \in {-1} \cup Ptrs, m \in [Addr -> Bytes] :
         /\ trace' = [trace EXCEPT ![t] = Append(@, Ev("invoke", loc[t].reqPtr, out))]
         /\ mem' = [mem EXCEPT ![Rt(t)] = m]
         /\ IF out = -1
            THEN /\ ret' = [ret EXCEPT ![t].err = ErrInvoke]
                 /\ pc' = [pc EXCEPT ![t] = "free"]
                 /\ loc' = loc
            ELSE IF IsNull(out)
            THEN /\ ret' = [ret EXCEPT ![t].err = ErrNullPtr]
                 /\ pc' = [pc EXCEPT ![t] = "free"]
                 /\ loc' = loc
            ELSE /\ ret' = ret
                 /\ pc' = [pc EXCEPT ![t] = "read"]
                 /\ loc' = [loc EXCEPT ![t].respPtr = out]
    /\ UNCHANGED <<st, newLog, closeCalls, target, budget>>

\* st.readStringFromMemory(uint32(responsePtr)) (191-194)
TranslateShader_Read(t) ==
    LET r == readStringFromMemory(mem[Rt(t)], loc[t].respPtr) IN
    /\ pc[t] = "read"
    /\ trace' = [trace EXCEPT ![t] =
                    Append(@, Ev("read", loc[t].respPtr, IF r.err = NoErr THEN Len(r.bytes) ELSE -1))]
    /\ IF r.err = NoErr
       THEN /\ loc' = [loc EXCEPT ![t].respBytes = r.bytes]
            /\ pc' = [pc EXCEPT ![t] = "unmarshal"]
            /\ ret' = ret
       ELSE /\ ret' = [ret EXCEPT ![t].err = r.err]
            /\ pc' = [pc EXCEPT ![t] = "free"]
            /\ loc' = loc
    /\ rt' = [rt EXCEPT ![Rt(t)].memops = @ + 1]
    /\ UNCHANGED <<st, newLog, mem, closeCalls, target, budget>>

\* json.Unmarshal(responseBytes, &responseMap) (196-199): the text is either
\* rejected or decoded to some object (or to the nil map, for `null`)
TranslateShader_Unmarshal(t) ==
    /\ pc[t] = "unmarshal"
    /\ \/ /\ ret' = [ret EXCEPT ![t].err = ErrUnmarshal]
          /\ pc' = [pc EXCEPT ![t] = "free"]
          /\ loc' = loc
       \/ /\ loc[t].respBytes # <<>>
          /\ \E responseMap \in EnvelopeDocs :
               loc' = [loc EXCEPT ![t].doc = responseMap]
          /\ pc' = [pc EXCEPT ![t] = "respond"]
          /\ ret' = ret
    /\ UNCHANGED <<st, newLog, rt, mem, closeCalls, target, budget, trace>>

\* the error branch and newShader (201-208)
TranslateShader_Respond(t) ==
    /\ pc[t] = "respond"
    /\ \E order \in Orders(loc[t].doc) :
         LET o == TranslateResponse(loc[t].doc, order) IN
         /\ loc' = [loc EXCEPT ![t].order = order]
         /\ ret' = [ret EXCEPT ![t].res = o.res, ![t].err = o.err, ![t].panic = o.panic]
    /\ pc' = [pc EXCEPT ![t] = "free"]
    /\ UNCHANGED <<st, newLog, rt, mem, closeCalls, target, budget, trace>>

\* (mutation) the response pointer is freed instead
FreeArg_response(requestPtr, responsePtr) == responsePtr

\* defer st.free.Call(st.ctx, requestPtr) (180), run when the call returns
FreeArg(requestPtr, responsePtr) == requestPtr

\* (mutation) a call that ends in an error marks the instance closed
TranslateShader_Free_closing(t) ==
    /\ pc[t] = "free"
    /\ rt' = [rt EXCEPT ![Rt(t)].guest = @ + 1]
    /\ \E out \in {-1, 0} :
         trace' = [trace EXCEPT ![t] =
                      Append(@, Ev("free", FreeArg(loc[t].reqPtr, loc[t].respPtr), out))]
    /\ pc' = [pc EXCEPT ![t] = "idle"]
    /\ loc' = [loc EXCEPT ![t] = NoLoc]
    /\ st' = [st EXCEPT ![target[t]].closed = @ \/ ret[t].err # NoErr]
    /\ UNCHANGED <<newLog, mem, closeCalls, target, budget, ret>>

TranslateShader_Free(t) ==
    /\ pc[t] = "free"
    /\ rt' = [rt EXCEPT ![Rt(t)].guest = @ + 1]
    /\ \E out \in {-1, 0} :
         trace' = [trace EXCEPT ![t] =
                      Append(@, Ev("free", FreeArg(loc[t].reqPtr, loc[t].respPtr), out))]
    /\ pc' = [pc EXCEPT ![t] = "idle"]
    /\ loc' = [loc EXCEPT ![t] = NoLoc]
    /\ UNCHANGED <<st, newLog, mem, closeCalls, target, budget, ret>>

\* ------------------------------------------------------------ initial state
InitCommon ==
    /\ st = [i \in Inst |-> NoTranslator]
    /\ newLog = [i \in Inst |-> NoNew]
    /\ rt = [r \in Inst |-> [init |-> 0, fin |-> 0, rel |-> 0, guest |-> 0, memops |-> 0]]
    /\ mem = [r \in Inst |-> [a \in Addr |-> 0]]
    /\ closeCalls = [i \in Inst |-> 0]
    /\ pc = [t \in Threads |-> "idle"]
    /\ loc = [t \in Threads |-> NoLoc]
    /\ ret = [t \in Threads |-> NoRet]
    /\ trace = [t \in Threads |-> <<>>]

\* One goroutine drives one instance through MaxOps calls.
Init ==
    /\ InitCommon
    /\ target = [t \in Threads |-> 1]
    /\ budget = [t \in Threads |-> IF t = 1 THEN MaxOps ELSE 0]

\* Two goroutines, each with an instance of its own.
InitPair ==
    /\ InitCommon
    /\ target = [t \in Threads |-> t]
    /\ budget = [t \in Threads |-> PairOps]

\* Two goroutines sharing one instance: the struct has no lock (51-61), so
\* their steps interleave freely.
InitShared ==
    /\ InitCommon
    /\ target = [t \in Threads |-> 1]
    /\ budget = [t \in Threads |-> PairOps]

\* An open instance whose call has just got a non-null offset back from invoke.
InitAfterInvoke(q) ==
    /\ st = [i \in Inst |-> IF i = 1 THEN ShaderTranslator(1) ELSE NoTranslator]
    /\ newLog = [i \in Inst |->
                    IF i = 1
                    THEN [done |-> TRUE,
                          env |-> [compile |-> TRUE, inst |-> TRUE, exports |-> Required,
                                   initErr |-> FALSE, initRes |-> 1],
                          err |-> NoErr, rel |-> 0, init |-> 1, closed |-> FALSE]
                    ELSE NoNew]
    /\ rt = [r \in Inst |-> [init |-> IF r = RuntimeOf(1) THEN 1 ELSE 0, fin |-> 0, rel |-> 0,
                             guest |-> IF r = RuntimeOf(1) THEN 2 ELSE 0,
                             memops |-> IF r = RuntimeOf(1) THEN 2 ELSE 0]]
    /\ closeCalls = [i \in Inst |-> 0]
    /\ target = [t \in Threads |-> 1]
    /\ budget = [t \in Threads |-> 0]
    /\ ret = [t \in Threads |-> IF t = 1 THEN Ret("translate", NilShader, NoErr, FALSE) ELSE NoRet]
    /\ trace = [t \in Threads |->
                   IF t = 1
                   THEN <<Ev("malloc", 2, 1), Ev("write", 1, 1), Ev("writebyte", 2, 1),
                          Ev("invoke", 1, q)>>
                   ELSE <<>>]

\* readStringFromMemory on every memory content and every non-null offset
InitRead ==
    \E q \in Ptrs \ {0} :
        /\ InitAfterInvoke(q)
        /\ mem \in [Inst -> [Addr -> ReadBytes]]
        /\ \A r \in Inst : r # RuntimeOf(1) => mem[r] = [a \in Addr |-> 0]
        /\ pc = [t \in Threads |-> IF t = 1 THEN "read" ELSE "idle"]
        /\ loc = [t \in Threads |->
                     IF t = 1 THEN [NoLoc EXCEPT !.data = <<1>>, !.reqPtr = 1, !.respPtr = q]
                     ELSE NoLoc]

NextRead == TranslateShader_Read(1)

SpecRead == InitRead /\ [][NextRead]_vars

\* lines 201-208 on every decoded response of ShaderDocs
InitShader ==
    /\ InitAfterInvoke(1)
    /\ mem = [r \in Inst |-> [a \in Addr |-> IF r = RuntimeOf(1) /\ a = 1 THEN 1 ELSE 0]]
    /\ pc = [t \in Threads |-> IF t = 1 THEN "respond" ELSE "idle"]
    /\ \E responseMap \in ShaderDocs :
         loc = [t \in Threads |->
                   IF t = 1
                   THEN [NoLoc EXCEPT !.data = <<1>>, !.reqPtr = 1, !.respPtr = 1,
                                      !.respBytes = <<1>>, !.doc = responseMap]
                   ELSE NoLoc]

NextShader == TranslateShader_Respond(1)

SpecShader == InitShader /\ [][NextShader]_vars

\* An open instance whose TranslateShader call has passed the closed check,
\* with every source, stage, input spec and output format.
InitRequest ==
    /\ st = [i \in Inst |-> IF i = 1 THEN ShaderTranslator(1) ELSE NoTranslator]
    /\ newLog = [i \in Inst |->
                    IF i = 1
                    THEN [done |-> TRUE,
                          env |-> [compile |-> TRUE, inst |-> TRUE, exports |-> Required,
                                   initErr |-> FALSE, initRes |-> 1],
                          err |-> NoErr, rel |-> 0, init |-> 1, closed |-> FALSE]
                    ELSE NoNew]
    /\ rt = [r \in Inst |-> [init |-> IF r = RuntimeOf(1) THEN 1 ELSE 0, fin |-> 0, rel |-> 0,
                             guest |-> 0, memops |-> 0]]
    /\ mem = [r \in Inst |-> [a \in Addr |-> 0]]
    /\ closeCalls = [i \in Inst |-> 0]
    /\ target = [t \in Threads |-> 1]
    /\ budget = [t \in Threads |-> 0]
    /\ ret = [t \in Threads |-> IF t = 1 THEN Ret("translate", NilShader, NoErr, FALSE) ELSE NoRet]
    /\ trace = [t \in Threads |-> <<>>]
    /\ pc = [t \in Threads |-> IF t = 1 THEN "request" ELSE "idle"]
    /\ \E shaderCode \in Sources, shaderType \in Stages,
          spec \in ShaderSpecs, output \in OutputFormats :
         loc = [t \in Threads |->
                   IF t = 1
                   THEN [NoLoc EXCEPT !.args = [shaderCode |-> shaderCode, shaderType |-> shaderType,
                                                spec |-> spec, output |-> output]]
                   ELSE NoLoc]

NextRequest == TranslateShader_BuildRequest(1)

SpecRequest == InitRequest /\ [][NextRequest]_vars

\* Two runs of lines 201-208, each on an instance of its own, on the same
\* decoded response.
InitTwice ==
    /\ st = [i \in Inst |-> ShaderTranslator(i)]
    /\ newLog = [i \in Inst |->
                    [done |-> TRUE,
                     env |-> [compile |-> TRUE, inst |-> TRUE, exports |-> Required,
                              initErr |-> FALSE, initRes |-> 1],
                     err |-> NoErr, rel |-> 0, init |-> 1, closed |-> FALSE]]
    /\ rt = [r \in Inst |-> [init |-> 1, fin |-> 0, rel |-> 0, guest |-> 2, memops |-> 2]]
    /\ mem = [r \in Inst |-> [a \in Addr |-> IF a = 1 THEN 1 ELSE 0]]
    /\ closeCalls = [i \in Inst |-> 0]
    /\ target = [t \in Threads |-> t]
    /\ budget = [t \in Threads |-> 0]
    /\ ret = [t \in Threads |-> Ret("translate", NilShader, NoErr, FALSE)]
    /\ trace = [t \in Threads |->
                   <<Ev("malloc", 2, 1), Ev("write", 1, 1), Ev("writebyte", 2, 1),
                     Ev("invoke", 1, 1)>>]
    /\ pc = [t \in Threads |-> "respond"]
    /\ \E responseMap \in ShaderDocs :
         loc = [t \in Threads |->
                   [NoLoc EXCEPT !.data = <<1>>, !.reqPtr = 1, !.respPtr = 1,
                                 !.respBytes = <<1>>, !.doc = responseMap]]

NextTwice == \E t \in Threads : TranslateShader_Respond(t)

SpecTwice == InitTwice /\ [][NextTwice]_vars

Next ==
    \E t \in Threads :
        \/ NewShaderTranslator(t)
        \/ Close_Begin(t)
        \/ Close_Finalize(t)
        \/ Close_Release(t)
        \/ TranslateShader_Begin(t)
        \/ writeStringToMemory_Malloc(t)
        \/ writeStringToMemory_Write(t)
        \/ writeStringToMemory_WriteByte(t)
        \/ TranslateShader_Invoke(t)
        \/ TranslateShader_Read(t)
        \/ TranslateShader_Unmarshal(t)
        \/ TranslateShader_Respond(t)
        \/ TranslateShader_Free(t)

Spec == Init /\ [][Next]_vars

SpecPair == InitPair /\ [][Next]_vars

SpecShared == InitShared /\ [][Next]_vars

\* ================================================================== claims
GuestCalls(t) == Events(t, "malloc") \cup Events(t, "invoke") \cup Events(t, "free")
Returned(t, o) == pc[t] = "idle" /\ ret[t].op = o

\* C1: once Close has been called on an instance, every later TranslateShader
\* call returns the 'translator has been closed' error with a nil result and
\* calls none of the guest's malloc, invoke, free -- whatever the finalizer
\* and the runtime release answered inside Close.
C1_ClosedAfterClose ==
    \A t \in Threads :
        (Returned(t, "translate") /\ ret[t].afterClose)
            => /\ ret[t].err = ErrClosed
               /\ ret[t].res.isNil
               /\ GuestCalls(t) = {}

\* C2: Close is idempotent: over the whole life of an instance the finalizer
\* is called at most once and the runtime is released at most once.
C2_CloseOnce ==
    \A i \in Inst :
        st[i].exists => /\ rt[st[i].runtime].fin <= 1
                        /\ rt[st[i].runtime].rel <= 1

\* C3: NewShaderTranslator fails and returns no translator when compilation
\* or instantiation fails, a required export is absent, the initializer call
\* errors or returns 0, releasing the runtime exactly once; on success the
\* runtime is not released, initialize was called exactly once and the
\* instance returned is open.
NewMustFail(env) ==
    \/ ~env.compile
    \/ ~env.inst
    \/ \E f \in Required : f \notin env.exports
    \/ env.initErr
    \/ env.initRes = 0

C3_NewAllOrNothing ==
    \A i \in Inst :
        newLog[i].done =>
            IF NewMustFail(newLog[i].env)
            THEN /\ newLog[i].err # NoErr
                 /\ ~st[i].exists
                 /\ newLog[i].rel = 1
                 /\ rt[RuntimeOf(i)].rel = 1
            ELSE /\ newLog[i].err = NoErr
                 /\ st[i].exists
                 /\ st[i].funcs = Required
                 /\ newLog[i].rel = 0
                 /\ newLog[i].init = 1
                 /\ rt[RuntimeOf(i)].init = 1
                 /\ ~newLog[i].closed

C3_Witness ==
    /\ newLog[1].done
    /\ newLog[1].env.exports = Required \ {"finalize"}
    /\ newLog[1].env.initRes = 1
    /\ rt[RuntimeOf(1)].rel = 1

\* C4: TranslateShader returns exactly one of (result, error) for every guest
\* response, and a response that carries an `error` entry gives an error and
\* no Result.
CarriesError(d) == IsMap(d) /\ "error" \in DOMAIN d.o

C4_ResultXorError ==
    \A t \in Threads :
        /\ (pc[t] = "free" /\ loc[t].doc # NoDoc)
               => /\ ~ret[t].panic
                  /\ ret[t].res.isNil # (ret[t].err = NoErr)
                  /\ CarriesError(loc[t].doc) => (ret[t].err # NoErr /\ ret[t].res.isNil)
        /\ Returned(t, "translate")
               => /\ ~ret[t].panic
                  /\ ret[t].res.isNil # (ret[t].err = NoErr)

\* C5: a parseable response that has not the expected shape gives a
\* malformed-response error: no crash, no default put in its place, no entry
\* skipped.
BoolFields == {"active", "is_row_major", "static_use"}
StrFields  == {"mapped_name", "name"}
NumFields  == {"precision_enum", "type_enum"}

ExpectedVariable(v) ==
    /\ IsMap(v)
    /\ \A f \in BoolFields : IsBool(Get(v, f))
    /\ \A f \in StrFields : IsStr(Get(v, f))
    /\ \A f \in NumFields : IsNum(Get(v, f))

ExpectedShape(d) ==
    LET result == Get(d, "result")
        av     == Get(result, "active_variables")
    IN /\ IsMap(result)
       /\ IsStr(Get(result, "object_code"))
       /\ IsMap(av)
       /\ \A c \in DOMAIN av.o :
            /\ IsArr(av.o[c])
            /\ \A j \in DOMAIN av.o[c].a : ExpectedVariable(av.o[c].a[j])

Malformed(d) == d # NoDoc /\ ~IsMap(Get(d, "error")) /\ ~ExpectedShape(d)

C5_MalformedIsError ==
    \A t \in Threads :
        (pc[t] = "free" /\ Malformed(loc[t].doc))
            => /\ ~ret[t].panic
               /\ ret[t].err # NoErr
               /\ ret[t].res.isNil

\* C6: when invoke returns the zero offset, TranslateShader fails with the
\* 'returned a null pointer' error, returns no Result, reads no guest memory
\* and parses nothing.
InvokeReturnedNull(t) == \E k \in Events(t, "invoke") : trace[t][k].out = 0

C6_NullPointer ==
    \A t \in Threads :
        InvokeReturnedNull(t)
            => /\ pc[t] \in {"free", "idle"}
               /\ ret[t].err = ErrNullPtr
               /\ ret[t].res.isNil
               /\ ~ret[t].panic
               /\ Events(t, "read") = {}
               /\ loc[t].respBytes = <<>>
               /\ loc[t].doc = NoDoc

C6_Witness == \E t \in Threads : InvokeReturnedNull(t) /\ Returned(t, "translate")

\* C7: for a non-zero offset p and any memory content, readStringFromMemory
\* returns the bytes from p up to, not including, the first zero byte at or
\* after p; with no zero byte from p to the end of the memory, or p at or
\* beyond the end, it returns an error and no bytes.
ZerosFrom(m, p) == {a \in Addr : a >= p /\ m[a] = 0}
FirstZero(m, p) == CHOOSE a \in ZerosFrom(m, p) : \A b \in ZerosFrom(m, p) : a <= b

C7_ReadString ==
    \A t \in Threads :
        \A k \in Events(t, "read") :
            LET m == mem[Rt(t)]
                p == trace[t][k].arg
            IN IF ZerosFrom(m, p) # {}
               THEN /\ trace[t][k].out = FirstZero(m, p) - p
                    /\ ret[t].err \notin {ErrRead, ErrNoTerm}
                    /\ pc[t] # "idle" =>
                           loc[t].respBytes = [j \in 1 .. (FirstZero(m, p) - p) |-> m[p + j - 1]]
               ELSE /\ trace[t][k].out = -1
                    /\ ret[t].err \in {ErrRead, ErrNoTerm}
                    /\ pc[t] \in {"free", "idle"}
                    /\ loc[t].respBytes = <<>>

C7_Witness ==
    /\ pc[1] = "unmarshal"
    /\ loc[1].respPtr = 1
    /\ loc[1].respBytes = <<2>>
    /\ mem[Rt(1)][2] = 0

\* C8: free is called only with the offset malloc returned for the request
\* buffer in the same call, never with the offset invoke returned, and at
\* most once.
FreedIsRequest(t) ==
    \A k \in Events(t, "free") :
        \E m \in Events(t, "malloc") : trace[t][m].out = trace[t][k].arg

C8_FreeNeverResponse ==
    \A t \in Threads :
        /\ Cardinality(Events(t, "free")) <= 1
        /\ FreedIsRequest(t)
        /\ \A k \in Events(t, "free"), v \in Events(t, "invoke") :
               trace[t][v].out # trace[t][k].arg

\* C8 as amended: free is called only with the offset malloc returned for the
\* request buffer in the same call, and at most once; that offset is the one
\* invoke returned only when the guest answers with the request buffer's own
\* offset.
C8_FreeOnlyRequest ==
    \A t \in Threads :
        /\ Cardinality(Events(t, "free")) <= 1
        /\ FreedIsRequest(t)

C8_Witness ==
    \E t \in Threads :
        /\ Returned(t, "translate")
        /\ \E k \in Events(t, "free"), v \in Events(t, "invoke") :
               /\ trace[t][v].out > 0
               /\ trace[t][v].out # trace[t][k].arg

\* C9: on success the Result's code is result.object_code, every entry of the
\* variable mapping is stored under its own original name with the category
\* it appeared under, and of several entries with one name the last one in
\* processing order is kept.
Succeeded(t) ==
    /\ pc[t] = "free"
    /\ loc[t].doc # NoDoc
    /\ ~ret[t].panic
    /\ ret[t].err = NoErr
    /\ ~ret[t].res.isNil

\* positions <<category index in processing order, index in the sequence>>
Positions(av, order) ==
    UNION {{<<c, j>> : j \in DOMAIN av.o[order[c]].a} : c \in DOMAIN order}
EntryAt(av, order, p) == av.o[order[p[1]]].a[p[2]]
Named(av, order, k) ==
    {p \in Positions(av, order) :
        IsMap(EntryAt(av, order, p)) /\ EntryAt(av, order, p).o.name.s = k}
NamesIn(av, order) ==
    {EntryAt(av, order, p).o.name.s :
        p \in {q \in Positions(av, order) : IsMap(EntryAt(av, order, q))}}
Later(p, q) == p[1] > q[1] \/ (p[1] = q[1] /\ p[2] >= q[2])
LastNamed(av, order, k) ==
    CHOOSE p \in Named(av, order, k) : \A q \in Named(av, order, k) : Later(p, q)

C9_LastWins ==
    \A t \in Threads :
        Succeeded(t) =>
            LET result == Get(loc[t].doc, "result")
                av     == Get(result, "active_variables")
                order  == loc[t].order
                vs     == ret[t].res.vars
            IN /\ ret[t].res.code = Get(result, "object_code").s
               /\ IF IsMap(av)
                  THEN /\ DOMAIN vs = NamesIn(av, order)
                       /\ \A k \in DOMAIN vs :
                            LET p == LastNamed(av, order, k) IN
                            /\ vs[k].Name = k
                            /\ vs[k].Category = order[p[1]]
                            /\ vs[k].MappedName = EntryAt(av, order, p).o.mapped_name.s
                  ELSE DOMAIN vs = {}

C9_Witness ==
    /\ Succeeded(1)
    /\ LET av    == Get(Get(loc[1].doc, "result"), "active_variables")
           order == loc[1].order
       IN /\ IsMap(av)
          /\ \E p, q \in Named(av, order, "a") :
               /\ p[1] > q[1]
               /\ EntryAt(av, order, p).o.mapped_name.s # EntryAt(av, order, q).o.mapped_name.s
               /\ ret[1].res.vars["a"].Category = order[p[1]]

\* C10: two independent instances do not interfere: a step of a call on one
\* instance leaves the other instance's struct, runtime and guest memory, and
\* the calls in progress on it, as they were.
InstView(i) ==
    <<st[i], newLog[i], closeCalls[i], rt[RuntimeOf(i)], mem[RuntimeOf(i)],
      [t \in {u \in Threads : target[u] = i} |-> <<pc[t], loc[t], ret[t], trace[t], budget[t]>>]>>

C10_NoInterference ==
    [][\A i, j \in Inst : (i # j /\ InstView(i)' # InstView(i)) => InstView(j)' = InstView(j)]_vars

C10_Witness ==
    /\ target[1] # target[2]
    /\ pc[1] = "read"
    /\ pc[2] = "writebyte"
    /\ mem[RuntimeOf(target[1])] # mem[RuntimeOf(target[2])]

\* C11: in Close on an open instance the finalizer is called first and the
\* runtime release is attempted next, whether the finalizer succeeded or
\* failed; a finalizer error is logged only, and Close returns an error only
\* when the release failed.
Last(s) == s[Len(s)]

C11_FinalizeThenRelease ==
    \A t \in Threads :
        ret[t].op = "close" =>
            /\ pc[t] \in {"idle", "finalize", "release"}
            /\ pc[t] = "finalize" => trace[t] = <<>>
            /\ pc[t] = "release" =>
                   /\ trace[t] # <<>>
                   /\ trace[t][1].f = "finalize"
                   /\ Events(t, "release") = {}
            /\ (pc[t] = "idle" /\ trace[t] = <<>>) =>
                   (st[target[t]].closed /\ ret[t].err = NoErr)
            /\ (pc[t] = "idle" /\ trace[t] # <<>>) =>
                   /\ trace[t][1].f = "finalize"
                   /\ Cardinality(Events(t, "finalize")) = 1
                   /\ Cardinality(Events(t, "release")) = 1
                   /\ Last(trace[t]).f = "release"
                   /\ (ret[t].err # NoErr) <=> (Last(trace[t]).out = -1)
                   /\ (trace[t][1].out = -1) => Events(t, "log") # {}

C11_Witness ==
    \E t \in Threads :
        /\ Returned(t, "close")
        /\ trace[t] # <<>>
        /\ trace[t][1] = Ev("finalize", 0, -1)
        /\ Last(trace[t]) = Ev("release", 0, 0)
        /\ ret[t].err = NoErr
        /\ st[target[t]].closed

\* C12: the request envelope has jsonrpc "2.0", id 1, method "translate",
\* shader_type = the stage, spec and output = the given tags,
\* print_active_variables = true, compile_options = {objectCode: true}, and
\* shader_code_base64 decodes, by standard base64, to the source bytes.
RECURSIVE Base64Decode(_)
Base64Decode(s) ==
    IF Len(s) < 4 THEN <<>>
    ELSE LET a == s[1]
             b == s[2]
             c == s[3]
             d == s[4]
             rest == Base64Decode(SubSeq(s, 5, Len(s)))
         IN IF c = Pad THEN <<a * 4 + b \div 16>>
            ELSE IF d = Pad THEN <<a * 4 + b \div 16, (b % 16) * 16 + c \div 4>>
            ELSE <<a * 4 + b \div 16, (b % 16) * 16 + c \div 4, (c % 4) * 64 + d>> \o rest

C12_Envelope ==
    \A t \in Threads :
        (pc[t] = "malloc" /\ loc[t].args # NoArgs) =>
            LET q == loc[t].req
                a == loc[t].args
            IN /\ q.jsonrpc = "2.0"
               /\ q.id = 1
               /\ q.method = "translate"
               /\ DOMAIN q.params = {"shader_code_base64", "shader_type", "spec", "output",
                                     "print_active_variables", "compile_options"}
               /\ q.params.shader_type = a.shaderType
               /\ q.params.spec = a.spec
               /\ q.params.output = a.output
               /\ q.params.print_active_variables = TRUE
               /\ q.params.compile_options = [objectCode |-> TRUE]
               /\ Len(q.params.shader_code_base64) % 4 = 0
               /\ Base64Decode(q.params.shader_code_base64) = a.shaderCode

C12_Witness ==
    /\ pc[1] = "malloc"
    /\ loc[1].args.shaderCode = <<255, 34, 10, 255>>
    /\ loc[1].args.spec = "webgl"
    /\ loc[1].args.output = "glsl330"
    /\ loc[1].req.params.shader_code_base64 = <<63, 50, 8, 10, 63, 48, 64, 64>>

\* C13: writeStringToMemory makes exactly one allocation, of len+1 bytes,
\* writes the data at the returned offset and a single zero byte at
\* offset+len, and writes nothing outside [offset, offset+len]; if malloc
\* errors or returns 0, or a write is rejected, TranslateShader returns a
\* memory error without having called invoke.
MemoryErrors == {ErrMallocCall, ErrMallocNull, ErrWrite, ErrWriteTerm}

WriteFailed(t) ==
    \/ \E k \in Events(t, "malloc") : trace[t][k].out \in {-1, 0}
    \/ \E k \in Events(t, "write") \cup Events(t, "writebyte") : trace[t][k].out = -1

C13_Calls ==
    \A t \in Threads :
        ret[t].op = "translate" =>
            /\ Cardinality(Events(t, "malloc")) <= 1
            /\ Cardinality(Events(t, "write")) <= 1
            /\ Cardinality(Events(t, "writebyte")) <= 1
            /\ pc[t] \in {"write", "writebyte", "invoke"} =>
                   /\ Events(t, "malloc") = {1}
                   /\ trace[t][1].arg = Len(loc[t].data) + 1
                   /\ trace[t][1].out = loc[t].reqPtr
                   /\ loc[t].reqPtr # 0
            /\ pc[t] \in {"writebyte", "invoke"} =>
                   /\ Events(t, "write") = {2}
                   /\ trace[t][2] = Ev("write", loc[t].reqPtr, Len(loc[t].data))
            /\ pc[t] = "invoke" =>
                   /\ Events(t, "writebyte") = {3}
                   /\ trace[t][3] = Ev("writebyte", loc[t].reqPtr + Len(loc[t].data), 1)
            /\ Events(t, "invoke") # {} =>
                   /\ Len(trace[t]) >= 4
                   /\ trace[t][1].f = "malloc" /\ trace[t][1].out > 0
                   /\ trace[t][2].f = "write" /\ trace[t][2].out >= 0
                   /\ trace[t][3].f = "writebyte" /\ trace[t][3].out = 1
            /\ WriteFailed(t) =>
                   /\ pc[t] = "idle"
                   /\ ret[t].err \in MemoryErrors
                   /\ ret[t].res = NilShader
                   /\ Events(t, "invoke") = {}
            /\ (pc[t] = "idle" /\ ret[t].err \in MemoryErrors) =>
                   (WriteFailed(t) /\ Events(t, "invoke") = {})

C13_Writes ==
    \A t \in Threads :
        LET r    == Rt(t)
            ptr  == loc[t].reqPtr
            data == loc[t].data
        IN
        /\ (pc[t] = "write" /\ pc'[t] # "write") =>
               /\ \A q \in Inst \ {r} : mem'[q] = mem[q]
               /\ \A a \in Addr :
                      mem'[r][a] = IF pc'[t] = "writebyte" /\ a >= ptr /\ a < ptr + Len(data)
                                   THEN data[a - ptr + 1]
                                   ELSE mem[r][a]
        /\ (pc[t] = "writebyte" /\ pc'[t] # "writebyte") =>
               /\ \A q \in Inst \ {r} : mem'[q] = mem[q]
               /\ \A a \in Addr :
                      mem'[r][a] = IF pc'[t] = "invoke" /\ a = ptr + Len(data)
                                   THEN 0
                                   ELSE mem[r][a]

C13_WriteString == []C13_Calls /\ [][C13_Writes]_vars

C13_Witness ==
    \E t \in Threads :
        LET p == loc[t].reqPtr IN
        /\ pc[t] = "invoke"
        /\ ret[t].op = "translate"
        /\ trace[t] = <<Ev("malloc", 2, p), Ev("write", p, 1), Ev("writebyte", p + 1, 1)>>
        /\ mem[Rt(t)][p] = 1
        /\ mem[Rt(t)][p + 1] = 0
        /\ \E a \in Addr : a < p /\ mem[Rt(t)][a] # 0

\* C14: within one TranslateShader call the guest calls happen in the order
\* malloc, invoke, free, each at most once; invoke comes only after the data
\* and the terminator have been written, is never repeated after an error,
\* and free comes only after the response bytes have been read.
Before(t, f, g) == \A j \in Events(t, f), k \in Events(t, g) : j < k

C14_CallOrder ==
    \A t \in Threads :
        ret[t].op = "translate" =>
            /\ \A f \in {"malloc", "invoke", "free"} : Cardinality(Events(t, f)) <= 1
            /\ Before(t, "malloc", "invoke")
            /\ Before(t, "malloc", "free")
            /\ Before(t, "invoke", "free")
            /\ \A k \in Events(t, "invoke") :
                   /\ \E j \in Events(t, "write") : j < k /\ trace[t][j].out >= 0
                   /\ \E j \in Events(t, "writebyte") : j < k /\ trace[t][j].out = 1
                   /\ trace[t][k].arg = trace[t][1].out
            /\ Before(t, "write", "writebyte")
            /\ Before(t, "read", "free")
            /\ \A k \in Events(t, "free") :
                   /\ k = Len(trace[t])
                   /\ pc[t] = "idle"
                   /\ Events(t, "invoke") # {}
                   /\ \A j \in Events(t, "invoke") :
                          trace[t][j].out > 0 => \E r \in Events(t, "read") : j < r /\ r < k
            /\ \A k \in Events(t, "invoke") :
                   trace[t][k].out = -1 =>
                       /\ ret[t].err = ErrInvoke
                       /\ pc[t] \in {"free", "idle"}

C14_Witness ==
    \E t \in Threads :
        /\ Returned(t, "translate")
        /\ ret[t].err = NoErr
        /\ Len(trace[t]) = 6
        /\ [k \in 1 .. 6 |-> trace[t][k].f] =
               <<"malloc", "write", "writebyte", "invoke", "read", "free">>

\* C15: every request buffer malloc returned (a non-zero offset) during a
\* TranslateShader call is released by exactly one free call before the call
\* returns, on every path, a failed write of the data or of the terminator
\* included.
C15_FreedBeforeReturn ==
    \A t \in Threads :
        Returned(t, "translate") =>
            \A k \in Events(t, "malloc") :
                trace[t][k].out > 0 =>
                    Cardinality({j \in Events(t, "free") :
                                    j > k /\ trace[t][j].arg = trace[t][k].out}) = 1

\* C16: at most one call is in flight per instance: the steps of one
\* TranslateShader call never overlap, on the same instance, with those of
\* another TranslateShader call or of Close, and no TranslateShader call that
\* passed the closed check calls a guest function after Close released the
\* runtime.
InFlight(t) == pc[t] # "idle"

C16_OneInFlight ==
    \A t \in Threads :
        /\ \A u \in Threads \ {t} :
               (target[u] = target[t] /\ InFlight(t)) => ~InFlight(u)
        /\ (ret[t].op = "translate" /\ pc[t] \in {"malloc", "invoke", "free"}) =>
               ~st[target[t]].closed

\* C17: for the same raw response two runs of TranslateShader return
\* identical Results, also when one original name appears under two
\* categories of active_variables.
BothResponded ==
    /\ \A t \in Threads : pc[t] = "free" /\ ret[t].op = "translate"
    /\ \A t, u \in Threads : loc[t].doc = loc[u].doc

SameOutcome ==
    \A t, u \in Threads :
        /\ ret[t].res = ret[u].res
        /\ ret[t].err = ret[u].err
        /\ ret[t].panic = ret[u].panic

C17_Deterministic == BothResponded => SameOutcome

\* C18: no step of a TranslateShader call, on any path, changes the closed
\* flag or the resolved function references of the instance: an open instance
\* stays open for further calls and a closed one stays closed.
TranslateStep(t) ==
    \/ /\ pc[t] = "idle"
       /\ budget'[t] # budget[t]
       /\ ret'[t].op = "translate"
    \/ /\ pc[t] # "idle"
       /\ ret[t].op = "translate"
       /\ <<pc'[t], loc'[t], ret'[t], trace'[t]>> # <<pc[t], loc[t], ret[t], trace[t]>>

C18_LifecycleUntouched ==
    [][\A t \in Threads : TranslateStep(t) => st' = st]_vars

C18_Witness ==
    \E t \in Threads :
        /\ Returned(t, "translate")
        /\ ret[t].err = ErrNoTerm
        /\ Events(t, "free") # {}
        /\ budget[t] = 0
        /\ st[target[t]].exists
        /\ ~st[target[t]].closed
        /\ rt[Rt(t)].guest >= 5

\* C19: for every variable entry whose type_enum and precision_enum are
\* non-negative whole numbers, the Result's Type and Precision are exactly
\* those integers, and active, is_row_major, static_use, mapped_name and name
\* are copied unchanged.
Whole(v) == IsNum(v) /\ v.half = 0 /\ v.i >= 0

C19_FieldsCopied ==
    \A t \in Threads :
        Succeeded(t) =>
            LET av    == Get(Get(loc[t].doc, "result"), "active_variables")
                order == loc[t].order
                vs    == ret[t].res.vars
            IN IsMap(av) =>
                   \A k \in DOMAIN vs :
                       LET e == EntryAt(av, order, LastNamed(av, order, k)).o IN
                       (Whole(e.type_enum) /\ Whole(e.precision_enum)) =>
                           /\ vs[k].Type = e.type_enum.i
                           /\ vs[k].Precision = e.precision_enum.i
                           /\ vs[k].Active = e.active.b
                           /\ vs[k].IsRowMajor = e.is_row_major.b
                           /\ vs[k].StaticUse = e.static_use.b
                           /\ vs[k].MappedName = e.mapped_name.s
                           /\ vs[k].Name = e.name.s

C19_Witness ==
    /\ Succeeded(1)
    /\ loc[1].doc \in NumberDocs
    /\ LET e == Get(Get(loc[1].doc, "result"), "active_variables").o["uniform"].a[1].o
           v == ret[1].res.vars["a"]
       IN /\ e.type_enum = JNum(35665, 0)
          /\ e.precision_enum = JNum(0, 0)
          /\ e.active = JBool(FALSE)
          /\ e.is_row_major = JBool(TRUE)
          /\ v.Type = 35665
          /\ v.Precision = 0
          /\ ~v.Active
          /\ v.IsRowMajor
====
